---------------------------- MODULE Spec2Model ----------------------------
(***************************************************************************)
(* Model of Source/Engine/GraphicsDevice/Vulkan/DescriptorSetVulkan.cpp.   *)
(*                                                                         *)
(* Three specifications share this module:                                 *)
(*   Spec       DescriptorPoolsManagerVulkan: AcquirePoolSetContainer,     *)
(*              ReleasePoolSet and GC called by several threads, with the  *)
(*              engine's frame counter advancing.                          *)
(*   SpecChain  TypedDescriptorPoolSetVulkan: one pool chain that is       *)
(*              allocated from and reset.                                  *)
(*   SpecUsage  DescriptorSetLayoutInfoVulkan::CacheTypesUsageID called    *)
(*              by several threads.                                        *)
(***************************************************************************)
EXTENDS Integers, Sequences, FiniteSets, TLC

(***************************************************************************)
(* Bounds of the model.                                                    *)
(***************************************************************************)
NumThreads == 2

\* DescriptorPoolVulkan constructor: const uint32 MaxSetsAllocations = 256.
MaxSetsAllocations == 256

\* _typesUsageID of a layout that has no usage ID yet: ~0, all bits set.
NoUsageID == -1

\* Pools are keyed by the usage ID of the layout's types (set in a header).
VULKAN_HASH_POOLS_WITH_TYPES_USAGE_ID == 1

\* The number of frames GC waits (DescriptorSetVulkan.cpp line 347). Its
\* value is set in a header; a small value stands in for it so that the
\* frame counter can pass it within MaxFrame frames.
VULKAN_RESOURCE_DELETE_SAFE_FRAMES_COUNT == 1

\* The frame counter runs just far enough for a registry to leave the margin.
MaxFrame == VULKAN_RESOURCE_DELETE_SAFE_FRAMES_COUNT + 1

\* The descriptor set allocations a chain of the registry model holds
\* between two resets.
MaxWork == 1

\* Bounds of the pool chain model.
MaxGroups == 2
NumDescTypes == 1
MaxAllocs == 258
MaxPools == 4

\* Bounds of the usage ID model.
MaxTypeCount == 2
HashRange == 2

\* Bounds of the Compile model: the bindings of a layout, the value of the
\* device limits, and the calls of Compile on one instance.
MaxDescriptors == 3
MaxLimit == 2
MaxCompiles == 2

Threads == 1..NumThreads
\* The addresses New<DescriptorPoolSetContainerVulkan> can return. Delete
\* gives an address back, so a later New may return it again. The manager
\* never owns more registries than there are callers.
Addr == 1..NumThreads
NoThread == 0
NoReg == 0

VARIABLES
    FrameCount,    \* Engine::FrameCount
    poolSets,      \* DescriptorPoolsManagerVulkan::_poolSets (sequence of addresses)
    heap,          \* memory at each address: [used, lastFrameUsed] of a container
    locker,        \* DescriptorPoolsManagerVulkan::_locker: the thread holding it, or NoThread
    pc,            \* per thread: "idle", "acq", "gc", "rel_load", "rel_store"
    idx,           \* per thread: loop index of the running Acquire / GC (1-based)
    held,          \* per thread: the registry returned by Acquire and not yet passed to Release
    cur,           \* per thread: the registry the running ReleasePoolSet was given
    relRead,       \* per thread: the value SetUsed(false) loaded from _lastFrameUsed
    dangling,      \* per thread: the registry of the running ReleasePoolSet was deleted
    allocated,     \* per address: 1 when the chains of the registry hold allocations made since their last reset, else 0
    gcQuiet,       \* history: the running or last GC ran alone and nothing ran since
    gcRemoved,     \* history: number of registries that GC has removed
    relFrame,      \* observer: per free registry, the frame at which _used became false
    lastReset,     \* observer: the registry whose chains the last step reset while they held allocations
    maxLeases,     \* observer: the largest number of leases that were held at one time
    layout,        \* TypedDescriptorPoolSetVulkan::_layout: the groups, each a list of bindings
    pools,         \* the list from _poolListHead: the native state of each pool
    cursor,        \* _poolListCurrent: position in pools (1-based)
    chainPc,       \* "idle", or "try" inside the loop of AllocateDescriptorSets
    nAllocs,       \* history: calls that returned true since construction or the last Reset
    phase,         \* history: "fresh", "reset" (since the last Reset), "lost" (a hard failure since)
    layoutTypes,   \* _layoutTypes of the two named layouts: the count of bindings of each type
    typesUsageID,  \* per named layout: _typesUsageID
    typesUsageHashMap, \* CacheTypesUsageID: static Dictionary, hash -> id (NoEntry if absent)
    uniqueID,      \* CacheTypesUsageID: static uint32 uniqueID
    usageLocker,   \* CacheTypesUsageID: static CriticalSection locker (holder or NoThread)
    uPc,           \* per thread: position inside CacheTypesUsageID
    uObj,          \* per thread: the layout object CacheTypesUsageID runs on
    uHash,         \* per thread: local typesUsageHash
    uId,           \* per thread: local id
    cLayoutTypes,  \* DescriptorSetLayoutVulkan::_layoutTypes of the instance Compile runs on
    cSetLayouts,   \* _setLayouts.Count() of that instance
    limits,        \* _device->PhysicalDeviceLimits, the seven limits Compile reads
    handles,       \* _handles.Count()
    cTypesUsageID, \* _typesUsageID of that instance
    descriptorSetCount, \* _allocateInfo.descriptorSetCount
    created,       \* history: calls of vkCreateDescriptorSetLayout
    cPc,           \* "ready", or "halted" on a failed ASSERT
    cCalls,        \* history: calls of Compile
    wCount,        \* SetupDescriptorWrites: info.DescriptorTypesCount
    wInfo,         \* info.DescriptorTypes, as far as the loop has read it
    writeDescriptors, \* the VkWriteDescriptorSet entries written so far
    bindingToDynamicOffset, \* the array BindingToDynamicOffset points at
    dynamicOffsetIndex, \* local dynamicOffsetIndex
    bufferInfo,    \* the bufferInfo pointer, as an offset into its array
    imageInfo,     \* the imageInfo pointer, as an offset into its array
    texelBufferView, \* the texelBufferView pointer, as an offset into its array
    wPc,           \* "loop", "returned", or "crashed" on CRASH
    wResult,       \* the value returned
    typedDescriptorPools, \* DescriptorPoolSetContainerVulkan::_typedDescriptorPools: key -> chain
    chainsCreated, \* history: TypedDescriptorPoolSetVulkan objects constructed for the registry
    requested,     \* history: the keys AcquireTypedPoolSet was called for
    lastTyped      \* history: the last operation on the registry, its key and the chain it returned

mgrVars == <<FrameCount, poolSets, heap, locker, pc, idx, held, cur,
             relRead, dangling, allocated, gcQuiet, gcRemoved>>

\* Observers of the manager: each is followed in a specification of its own.
obsVars == <<relFrame, lastReset, maxLeases>>

chainVars == <<layout, pools, cursor, chainPc, nAllocs, phase>>

usageVars == <<layoutTypes, typesUsageID, typesUsageHashMap, uniqueID, usageLocker,
               uPc, uObj, uHash, uId>>

compileVars == <<cLayoutTypes, cSetLayouts, limits, handles, cTypesUsageID,
                 descriptorSetCount, created, cPc, cCalls>>

writerVars == <<wCount, wInfo, writeDescriptors, bindingToDynamicOffset,
                dynamicOffsetIndex, bufferInfo, imageInfo, texelBufferView, wPc,
                wResult>>

regVars == <<typedDescriptorPools, chainsCreated, requested, lastTyped>>

vars == <<mgrVars, obsVars, chainVars, usageVars, compileVars, writerVars, regVars>>

Range(s) == {s[i] : i \in 1..Len(s)}

\* Array::RemoveAt
RemoveAt(s, i) == [j \in 1..(Len(s) - 1) |-> IF j < i THEN s[j] ELSE s[j + 1]]

(***************************************************************************)
(* DescriptorPoolSetContainerVulkan                                        *)
(***************************************************************************)

\* Mutant of the constructor: the container starts out free.
NewContainerFree(fc) == [used |-> FALSE, lastFrameUsed |-> fc]

\* The constructor: _lastFrameUsed(Engine::FrameCount), _used(true).
NewContainer(fc) == [used |-> TRUE, lastFrameUsed |-> fc]

\* Mutant of IsUnused: every container passes for free.
IsUnusedAlways(c) == TRUE

IsUnused(c) == ~c.used

GetLastFrameUsed(c) == c.lastFrameUsed

\* SetUsed, first statement: _used = used.
SetUsedFlag(c, used) == [c EXCEPT !.used = used]

\* SetUsed, second statement: _lastFrameUsed = used ? Engine::FrameCount : _lastFrameUsed.
\* `loaded` is the value the statement read from _lastFrameUsed.
SetUsedFrame(c, used, fc, loaded) ==
    [c EXCEPT !.lastFrameUsed = IF used THEN fc ELSE loaded]

\* SetUsed run without interference (the caller holds the lock and the object is its own).
SetUsed(c, used, fc) == SetUsedFrame(SetUsedFlag(c, used), used, fc, c.lastFrameUsed)

\* DescriptorPoolSetContainerVulkan::Reset: every chain of the registry is
\* reset, so the registry holds no allocation.
ContainerReset(n) == 0

\* Memory that holds no container. Its content is never relied on: a read
\* of it may return anything.
Freed == [used |-> FALSE, lastFrameUsed |-> 0]

(***************************************************************************)
(* DescriptorPoolsManagerVulkan                                            *)
(*                                                                         *)
(* Each thread is a caller that holds at most one registry. Taking the     *)
(* lock is one step with the first thing done under it, and leaving it is  *)
(* one step with the last.                                                 *)
(***************************************************************************)

Leases == {held[t] : t \in Threads} \ {NoReg}

\* The addresses New can return: free addresses that no running
\* ReleasePoolSet points at are alike, so the lowest stands for them.
NewAddrs ==
    LET free == Addr \ Range(poolSets)
        pointed == {cur[u] : u \in Threads}
    IN  {a \in free : a \in pointed \/ \A b \in free \ pointed : a <= b}

InitMgr ==
    /\ FrameCount = 0
    /\ poolSets = <<>>
    /\ heap = [a \in Addr |-> Freed]
    /\ locker = NoThread
    /\ pc = [t \in Threads |-> "idle"]
    /\ idx = [t \in Threads |-> 0]
    /\ held = [t \in Threads |-> NoReg]
    /\ cur = [t \in Threads |-> NoReg]
    /\ relRead = [t \in Threads |-> 0]
    /\ dangling = [t \in Threads |-> FALSE]
    /\ allocated = [a \in Addr |-> 0]
    /\ gcQuiet = FALSE
    /\ gcRemoved = 0

\* A step of anything but GC: the running or last GC did not run alone.
GCDisturbed == gcQuiet' = FALSE /\ gcRemoved' = 0

\* Engine::FrameCount advances (the engine's frame loop).
Tick ==
    /\ FrameCount < MaxFrame
    /\ FrameCount' = FrameCount + 1
    /\ GCDisturbed
    /\ UNCHANGED <<poolSets, heap, locker, pc, idx, held, cur, relRead,
                   dangling, allocated>>

\* AcquirePoolSetContainer: the lease is handed to the caller and the lock is left.
AcquireReturn(t, a) ==
    /\ held' = [held EXCEPT ![t] = a]
    /\ locker' = NoThread
    /\ pc' = [pc EXCEPT ![t] = "idle"]
    /\ idx' = [idx EXCEPT ![t] = 0]

\* AcquirePoolSetContainer: the iteration of the loop over _poolSets at
\* index i, or, past the end of the list, the construction of a new container.
AcquireIter(t, i) ==
    /\ IF i <= Len(poolSets)
       THEN LET a == poolSets[i] IN
            IF IsUnused(heap[a])
            THEN /\ heap' = [heap EXCEPT ![a] = SetUsed(heap[a], TRUE, FrameCount)]
                 /\ allocated' = [allocated EXCEPT ![a] = ContainerReset(allocated[a])]
                 /\ AcquireReturn(t, a)
                 /\ UNCHANGED poolSets
            ELSE /\ idx' = [idx EXCEPT ![t] = i + 1]
                 /\ locker' = t
                 /\ pc' = [pc EXCEPT ![t] = "acq"]
                 /\ UNCHANGED <<heap, held, poolSets, allocated>>
       ELSE \E a \in NewAddrs :
                 /\ heap' = [heap EXCEPT ![a] = NewContainer(FrameCount)]
                 /\ allocated' = [allocated EXCEPT ![a] = 0]
                 /\ poolSets' = Append(poolSets, a)
                 /\ AcquireReturn(t, a)
    /\ GCDisturbed
    /\ UNCHANGED <<FrameCount, cur, relRead, dangling>>

\* AcquirePoolSetContainer: ScopeLock lock(_locker) and the first iteration.
AcquireEnter(t) ==
    /\ pc[t] = "idle"
    /\ held[t] = NoReg
    /\ locker = NoThread
    /\ AcquireIter(t, 1)

\* AcquirePoolSetContainer: a later iteration.
AcquireScan(t) ==
    /\ pc[t] = "acq"
    /\ AcquireIter(t, idx[t])

\* A store of the running ReleasePoolSet. A store to a deleted container
\* lands in whatever lives at that address now.
ReleaseStore(a, c) ==
    heap' = [heap EXCEPT ![a] = IF a \in Range(poolSets) THEN c ELSE Freed]

\* ReleasePoolSet(poolSet) is called, without a lock; SetUsed(false) makes
\* its first store, _used = false.
ReleaseStoreUsed(t) ==
    /\ pc[t] = "idle"
    /\ held[t] # NoReg
    /\ ReleaseStore(held[t], SetUsedFlag(heap[held[t]], FALSE))
    /\ cur' = [cur EXCEPT ![t] = held[t]]
    /\ held' = [held EXCEPT ![t] = NoReg]
    /\ pc' = [pc EXCEPT ![t] = "rel_load"]
    /\ GCDisturbed
    /\ UNCHANGED <<FrameCount, poolSets, locker, idx, relRead, dangling, allocated>>

\* SetUsed(false): the load of _lastFrameUsed on the right-hand side. A load
\* from a deleted container may return anything.
ReleaseLoadFrame(t) ==
    /\ pc[t] = "rel_load"
    /\ \E v \in 0..MaxFrame :
         /\ dangling[t] \/ v = GetLastFrameUsed(heap[cur[t]])
         /\ relRead' = [relRead EXCEPT ![t] = v]
    /\ pc' = [pc EXCEPT ![t] = "rel_store"]
    /\ GCDisturbed
    /\ UNCHANGED <<FrameCount, poolSets, heap, locker, idx, held, cur, dangling,
                   allocated>>

\* SetUsed(false): the store to _lastFrameUsed; ReleasePoolSet returns.
ReleaseStoreFrame(t) ==
    /\ pc[t] = "rel_store"
    /\ ReleaseStore(cur[t], SetUsedFrame(heap[cur[t]], FALSE, FrameCount, relRead[t]))
    /\ relRead' = [relRead EXCEPT ![t] = 0]
    /\ cur' = [cur EXCEPT ![t] = NoReg]
    /\ dangling' = [dangling EXCEPT ![t] = FALSE]
    /\ pc' = [pc EXCEPT ![t] = "idle"]
    /\ GCDisturbed
    /\ UNCHANGED <<FrameCount, poolSets, locker, idx, held, allocated>>

\* Mutant of the GC condition: the IsUnused() test is missing.
GCRemovesLeased(c, fc) ==
    fc - GetLastFrameUsed(c) > VULKAN_RESOURCE_DELETE_SAFE_FRAMES_COUNT

\* GC: the condition under which the loop removes _poolSets[i].
GCRemoves(c, fc) ==
    IsUnused(c) /\ fc - GetLastFrameUsed(c) > VULKAN_RESOURCE_DELETE_SAFE_FRAMES_COUNT

\* Mutant of the GC loop: the break is missing, the loop goes on.
GCNoBreak(i) == i - 1

\* GC: the loop index after a removal (break leaves the loop).
GCAfterRemove(i) == 0

\* The indices of _poolSets GC would remove if it looked at them now.
EligibleIdx == {i \in 1..Len(poolSets) : GCRemoves(heap[poolSets[i]], FrameCount)}

\* GC: the loop goes on at index `next`, or is over and the lock is left.
GCContinue(t, next) ==
    IF next >= 1
    THEN /\ idx' = [idx EXCEPT ![t] = next]
         /\ locker' = t
         /\ pc' = [pc EXCEPT ![t] = "gc"]
    ELSE /\ idx' = [idx EXCEPT ![t] = 0]
         /\ locker' = NoThread
         /\ pc' = [pc EXCEPT ![t] = "idle"]

\* GC: the iteration of the loop at index i (none when the list is empty).
GCIter(t, i) ==
    /\ IF i >= 1 /\ GCRemoves(heap[poolSets[i]], FrameCount)
       THEN LET a == poolSets[i] IN
            /\ poolSets' = RemoveAt(poolSets, i)
            /\ heap' = [heap EXCEPT ![a] = Freed]
            /\ allocated' = [allocated EXCEPT ![a] = 0]
            /\ dangling' = [u \in Threads |-> dangling[u] \/ cur[u] = a]
            /\ GCContinue(t, GCAfterRemove(i))
       ELSE /\ GCContinue(t, i - 1)
            /\ UNCHANGED <<poolSets, heap, dangling, allocated>>
    /\ UNCHANGED <<FrameCount, held, cur, relRead>>

\* GC: ScopeLock lock(_locker); i = _poolSets.Count() - 1; the first iteration.
GCEnter(t) ==
    /\ pc[t] = "idle"
    /\ locker = NoThread
    /\ GCIter(t, Len(poolSets))
    /\ gcQuiet' = TRUE
    /\ gcRemoved' = IF poolSets' # poolSets THEN 1 ELSE 0

\* GC: a later iteration.
GCStep(t) ==
    /\ pc[t] = "gc"
    /\ GCIter(t, idx[t])
    /\ gcQuiet' = gcQuiet
    /\ gcRemoved' = IF gcQuiet /\ poolSets' # poolSets THEN gcRemoved + 1 ELSE gcRemoved

\* The registry whose allocations the manager model follows: the one at the
\* first address New returns. The chains of the others are left empty.
FollowedReg == 1

\* The holder of a registry allocates descriptor sets from one of its chains
\* (AcquireTypedPoolSet, then AllocateDescriptorSets on the chain); the
\* chains then hold allocations, however many.
UseRegistry(t) ==
    /\ pc[t] = "idle"
    /\ held[t] = FollowedReg
    /\ allocated' = [allocated EXCEPT ![held[t]] = 1]
    /\ GCDisturbed
    /\ UNCHANGED <<FrameCount, poolSets, heap, locker, pc, idx, held, cur, relRead,
                   dangling>>

NextMgr ==
    \/ Tick
    \/ \E t \in Threads : AcquireEnter(t)
    \/ \E t \in Threads : AcquireScan(t)
    \/ \E t \in Threads : ReleaseStoreUsed(t)
    \/ \E t \in Threads : ReleaseLoadFrame(t)
    \/ \E t \in Threads : ReleaseStoreFrame(t)
    \/ \E t \in Threads : GCEnter(t)
    \/ \E t \in Threads : GCStep(t)

(***************************************************************************)
(* Observers of the manager. An observer is a history of the steps above;  *)
(* no step reads it.                                                       *)
(***************************************************************************)

ObsIdle == relFrame = [a \in Addr |-> 0] /\ lastReset = NoReg /\ maxLeases = 0

\* The registry ReleasePoolSet is called on in this step, if any.
ReleasedNow(a) == \E t \in Threads : held[t] = a /\ held'[t] = NoReg

\* The frame at which each free registry became free: the frame of the
\* store _used = false; nothing for a registry that is leased or deleted.
RelFrameNext ==
    [a \in Addr |->
        IF ReleasedNow(a) THEN FrameCount
        ELSE IF a \notin Range(poolSets') \/ a \in {held'[t] : t \in Threads} THEN 0
        ELSE relFrame[a]]

\* The registries whose chains this step reset while they held allocations.
ResetNow == {a \in Range(poolSets') : allocated[a] > 0 /\ allocated'[a] = 0}

LastResetNext == IF ResetNow = {} THEN NoReg ELSE CHOOSE a \in ResetNow : TRUE

\* The largest number of leases held at one time, this step included. A
\* lease lasts from the return of AcquirePoolSetContainer to the return of
\* ReleasePoolSet.
MaxLeasesNext ==
    LET n == Cardinality({t \in Threads : held'[t] # NoReg \/ cur'[t] # NoReg})
    IN  IF n > maxLeases THEN n ELSE maxLeases

(***************************************************************************)
(* DescriptorSetLayoutInfoVulkan / DescriptorSetLayoutVulkan, as far as    *)
(* the pools read them.                                                    *)
(***************************************************************************)

DescTypes == 1..NumDescTypes

\* descriptor.Count of a binding: a single descriptor, or an array longer
\* than a pool's share for one binding.
BindingCounts == {1, MaxSetsAllocations + 1}

\* A binding group (one SetLayout): per descriptor type the descriptor.Count
\* of its binding of that type, 0 when it has none.
Groups == [DescTypes -> {0} \cup BindingCounts]

SeqsUpTo(S, n) == UNION {[1..k -> S] : k \in 0..n}

\* The layouts the chain is built for: _setLayouts after AddBindingsForStage.
Layouts == SeqsUpTo(Groups, MaxGroups)

RECURSIVE SumSeq(_)
SumSeq(q) == IF q = <<>> THEN 0 ELSE Head(q) + SumSeq(Tail(q))

\* GetTypesUsed: _layoutTypes[type], incremented once per binding of the type.
GetTypesUsed(L, ty) == Cardinality({g \in 1..Len(L) : L[g][ty] # 0})

\* The descriptors of one type that one allocation request takes: the sum of
\* descriptorCount over the bindings of the type.
DescriptorsNeeded(L, ty) == SumSeq([g \in 1..Len(L) |-> L[g][ty]])

\* Compile: _handles.Resize(_setLayouts.Count()); descriptorSetCount = _handles.Count().
HandlesCount(L) == Len(L)

(***************************************************************************)
(* DescriptorPoolVulkan                                                    *)
(***************************************************************************)

\* The constructor: maxSets and one VkDescriptorPoolSize per type in use.
NewPool(L) ==
    [maxSets |-> MaxSetsAllocations *
                   (IF VULKAN_HASH_POOLS_WITH_TYPES_USAGE_ID = 1 THEN 1 ELSE Len(L)),
     sizes   |-> [ty \in DescTypes |-> GetTypesUsed(L, ty) * MaxSetsAllocations],
     sets    |-> 0,
     descs   |-> [ty \in DescTypes |-> 0]]

\* DescriptorPoolVulkan::Reset: vkResetDescriptorPool returns every set.
PoolReset(p) == [p EXCEPT !.sets = 0, !.descs = [ty \in DescTypes |-> 0]]

\* vkAllocateDescriptorSets has room for the request in pool p.
PoolHasRoom(p, L) ==
    /\ p.sets + HandlesCount(L) <= p.maxSets
    /\ \A ty \in DescTypes : p.descs[ty] + DescriptorsNeeded(L, ty) <= p.sizes[ty]

\* vkAllocateDescriptorSets succeeded: the sets are taken from pool p.
PoolTake(p, L) ==
    [p EXCEPT !.sets = p.sets + HandlesCount(L),
              !.descs = [ty \in DescTypes |-> p.descs[ty] + DescriptorsNeeded(L, ty)]]

\* The results of vkAllocateDescriptorSets on pool p.
NativeResults(p, L) ==
    IF PoolHasRoom(p, L)
    THEN {"VK_SUCCESS", "VK_ERROR_DEVICE_LOST"}
    ELSE {"VK_ERROR_OUT_OF_POOL_MEMORY", "VK_ERROR_DEVICE_LOST"}

\* DescriptorPoolVulkan::AllocateDescriptorSets: ... == VK_SUCCESS.
PoolAllocateOk(result) == result = "VK_SUCCESS"

(***************************************************************************)
(* TypedDescriptorPoolSetVulkan                                            *)
(***************************************************************************)

\* PushNewPool: a new pool is linked after the current one and becomes
\* current: _poolListCurrent->Next is overwritten, so the nodes that were
\* linked after the current one are off the list.
PushNewPool(ps, c, L) ==
    [pools |-> Append(SubSeq(ps, 1, c), NewPool(L)), cursor |-> c + 1]

\* Mutant of GetFreePool: the test of _poolListCurrent->Next is missing.
GetFreePoolAlwaysPush(ps, c, L, forceNewPool) ==
    IF ~forceNewPool THEN [pools |-> ps, cursor |-> c]
    ELSE PushNewPool(ps, c, L)

\* GetFreePool(forceNewPool).
GetFreePool(ps, c, L, forceNewPool) ==
    IF ~forceNewPool THEN [pools |-> ps, cursor |-> c]
    ELSE IF c < Len(ps) THEN [pools |-> ps, cursor |-> c + 1]
    ELSE PushNewPool(ps, c, L)

\* Mutant of AllocateDescriptorSets: it moves to the next pool before the first attempt.
AllocFirstPoolForced(ps, c, L) == GetFreePool(ps, c, L, TRUE)

\* AllocateDescriptorSets: pool = _poolListCurrent->Element.
AllocFirstPool(ps, c, L) == [pools |-> ps, cursor |-> c]

\* Mutant of Reset: the cursor is not rewound.
TypedResetKeepCursor(ps, c) ==
    [pools |-> [i \in 1..Len(ps) |-> PoolReset(ps[i])], cursor |-> c]

\* TypedDescriptorPoolSetVulkan::Reset.
TypedReset(ps, c) ==
    [pools |-> [i \in 1..Len(ps) |-> PoolReset(ps[i])], cursor |-> 1]

\* The chain as its constructor leaves it for one of the layouts: PushNewPool
\* on the empty list.
InitChain ==
    /\ layout \in Layouts
    /\ pools = PushNewPool(<<>>, 0, layout).pools
    /\ cursor = PushNewPool(<<>>, 0, layout).cursor
    /\ chainPc = "idle"
    /\ nAllocs = 0
    /\ phase = "fresh"

\* AllocateDescriptorSets is entered. The model follows a chain whose
\* native layer has failed hard up to the next Reset only.
ChainAllocCall ==
    /\ chainPc = "idle"
    /\ nAllocs < MaxAllocs
    /\ phase # "lost"
    /\ IF HandlesCount(layout) > 0
       THEN LET r == AllocFirstPool(pools, cursor, layout) IN
            /\ pools' = r.pools
            /\ cursor' = r.cursor
            /\ chainPc' = "try"
            /\ UNCHANGED nAllocs
       ELSE /\ nAllocs' = nAllocs + 1
            /\ UNCHANGED <<pools, cursor, chainPc>>
    /\ UNCHANGED <<layout, phase>>

\* AllocateDescriptorSets: one test of the while condition, with the body
\* when the allocation from the current pool did not succeed. The model
\* lets the native layer fail for another reason than exhaustion once
\* between two Resets.
ChainAllocTry ==
    /\ chainPc = "try"
    /\ \E result \in NativeResults(pools[cursor], layout) :
         /\ result = "VK_ERROR_DEVICE_LOST" => phase # "lost"
         /\ IF PoolAllocateOk(result)
            THEN /\ pools' = [pools EXCEPT ![cursor] = PoolTake(pools[cursor], layout)]
                 /\ chainPc' = "idle"
                 /\ nAllocs' = nAllocs + 1
                 /\ UNCHANGED <<cursor, phase>>
            ELSE LET r == GetFreePool(pools, cursor, layout, TRUE) IN
                 /\ Len(r.pools) <= MaxPools
                 /\ pools' = r.pools
                 /\ cursor' = r.cursor
                 /\ phase' = IF result = "VK_ERROR_DEVICE_LOST" THEN "lost" ELSE phase
                 /\ UNCHANGED <<chainPc, nAllocs>>
    /\ UNCHANGED layout

\* TypedDescriptorPoolSetVulkan::Reset, called between allocations.
ChainReset ==
    /\ chainPc = "idle"
    /\ LET r == TypedReset(pools, cursor) IN
         /\ pools' = r.pools
         /\ cursor' = r.cursor
    /\ nAllocs' = 0
    /\ phase' = "reset"
    /\ UNCHANGED <<layout, chainPc>>

NextChainOps ==
    \/ ChainAllocCall
    \/ ChainAllocTry
    \/ ChainReset

\* The chain variables while another part of the file is explored.
ChainIdle ==
    /\ layout = <<>>
    /\ pools = <<>>
    /\ cursor = 0
    /\ chainPc = "idle"
    /\ nAllocs = 0
    /\ phase = "fresh"

\* The manager variables while another part of the file is explored.
MgrIdle == InitMgr /\ ObsIdle


(***************************************************************************)
(* DescriptorSetLayoutInfoVulkan::CacheTypesUsageID                        *)
(***************************************************************************)

\* Two layouts that are followed by name; CacheTypesUsageID is also called
\* on other layouts, which are not told apart.
LayoutObjs == {1, 2}
OtherLayout == 0

\* The values of _layoutTypes.
Histograms == [DescTypes -> 0..MaxTypeCount]

\* Dictionary: no entry for the key.
NoEntry == 0

\* Crc::MemCrc32(_layoutTypes, sizeof(_layoutTypes)): a checksum of the
\* whole array in a range smaller than the set of arrays, so that distinct
\* arrays may share a hash.
MemCrc32(h) == SumSeq([ty \in DescTypes |-> ty * h[ty]]) % HashRange

Hashes == 0..(HashRange - 1)

\* Mutant of ScopeLock lock(locker): the lock is not taken.
LockIgnored == TRUE

\* ScopeLock lock(locker) can enter.
LockAvailable == usageLocker = NoThread

\* The two named layouts have the same _layoutTypes, any of the histograms.
InitUsage ==
    /\ layoutTypes \in Histograms
    /\ typesUsageID = [o \in LayoutObjs |-> NoUsageID]
    /\ typesUsageHashMap = [h \in Hashes |-> NoEntry]
    /\ uniqueID = 1
    /\ usageLocker = NoThread
    /\ uPc = [t \in Threads |-> "idle"]
    /\ uObj = [t \in Threads |-> OtherLayout]
    /\ uHash = [t \in Threads |-> 0]
    /\ uId = [t \in Threads |-> 0]

\* CacheTypesUsageID is entered on a named layout no other thread is
\* working on, or on another layout with any histogram:
\* typesUsageHash = Crc::MemCrc32(...).
UsageHash(t) ==
    /\ uPc[t] = "idle"
    /\ \/ \E o \in LayoutObjs :
            /\ \A u \in Threads : uPc[u] # "idle" => uObj[u] # o
            /\ uObj' = [uObj EXCEPT ![t] = o]
            /\ uHash' = [uHash EXCEPT ![t] = MemCrc32(layoutTypes)]
       \/ \E h \in Histograms :
            /\ uObj' = [uObj EXCEPT ![t] = OtherLayout]
            /\ uHash' = [uHash EXCEPT ![t] = MemCrc32(h)]
    /\ uPc' = [uPc EXCEPT ![t] = "hashed"]
    /\ UNCHANGED <<layoutTypes, typesUsageID, typesUsageHashMap, uniqueID,
                   usageLocker, uId>>

\* ScopeLock lock(locker).
UsageLock(t) ==
    /\ uPc[t] = "hashed"
    /\ LockAvailable
    /\ usageLocker' = t
    /\ uPc' = [uPc EXCEPT ![t] = "locked"]
    /\ UNCHANGED <<layoutTypes, typesUsageID, typesUsageHashMap, uniqueID,
                   uObj, uHash, uId>>

\* if (!typesUsageHashMap.TryGet(typesUsageHash, id))
UsageTryGet(t) ==
    /\ uPc[t] = "locked"
    /\ IF typesUsageHashMap[uHash[t]] # NoEntry
       THEN /\ uId' = [uId EXCEPT ![t] = typesUsageHashMap[uHash[t]]]
            /\ uPc' = [uPc EXCEPT ![t] = "store"]
       ELSE /\ uPc' = [uPc EXCEPT ![t] = "newid"]
            /\ UNCHANGED uId
    /\ UNCHANGED <<layoutTypes, typesUsageID, typesUsageHashMap, uniqueID,
                   usageLocker, uObj, uHash>>

\* id = uniqueID++; the counter takes one value per distinct hash, so the
\* uint32 does not wrap before every hash has its ID.
UsageNewId(t) ==
    /\ uPc[t] = "newid"
    /\ uId' = [uId EXCEPT ![t] = uniqueID]
    /\ uniqueID' = uniqueID + 1
    /\ uPc' = [uPc EXCEPT ![t] = "add"]
    /\ UNCHANGED <<layoutTypes, typesUsageID, typesUsageHashMap, usageLocker,
                   uObj, uHash>>

\* typesUsageHashMap.Add(typesUsageHash, id);
UsageAdd(t) ==
    /\ uPc[t] = "add"
    /\ typesUsageHashMap' = [typesUsageHashMap EXCEPT ![uHash[t]] = uId[t]]
    /\ uPc' = [uPc EXCEPT ![t] = "store"]
    /\ UNCHANGED <<layoutTypes, typesUsageID, uniqueID, usageLocker, uObj,
                   uHash, uId>>

\* _typesUsageID = id; the lock is left on return.
UsageStore(t) ==
    /\ uPc[t] = "store"
    /\ typesUsageID' = [o \in LayoutObjs |->
                            IF o = uObj[t] THEN uId[t] ELSE typesUsageID[o]]
    /\ usageLocker' = IF usageLocker = t THEN NoThread ELSE usageLocker
    /\ uPc' = [uPc EXCEPT ![t] = "idle"]
    /\ uObj' = [uObj EXCEPT ![t] = OtherLayout]
    /\ uHash' = [uHash EXCEPT ![t] = 0]
    /\ uId' = [uId EXCEPT ![t] = 0]
    /\ UNCHANGED <<layoutTypes, typesUsageHashMap, uniqueID>>

NextUsageOps ==
    \/ \E t \in Threads : UsageHash(t)
    \/ \E t \in Threads : UsageLock(t)
    \/ \E t \in Threads : UsageTryGet(t)
    \/ \E t \in Threads : UsageNewId(t)
    \/ \E t \in Threads : UsageAdd(t)
    \/ \E t \in Threads : UsageStore(t)

\* The usage ID variables while another part of the file is explored.
UsageIdle ==
    /\ layoutTypes = [ty \in DescTypes |-> 0]
    /\ typesUsageID = [o \in LayoutObjs |-> NoUsageID]
    /\ typesUsageHashMap = [h \in Hashes |-> NoEntry]
    /\ uniqueID = 1
    /\ usageLocker = NoThread
    /\ uPc = [t \in Threads |-> "idle"]
    /\ uObj = [t \in Threads |-> OtherLayout]
    /\ uHash = [t \in Threads |-> 0]
    /\ uId = [t \in Threads |-> 0]


(***************************************************************************)
(* DescriptorSetLayoutVulkan::Compile                                      *)
(***************************************************************************)

\* VkDescriptorType, VULKAN_DESCRIPTOR_TYPE_BEGIN to VULKAN_DESCRIPTOR_TYPE_END.
VkTypes ==
    {"SAMPLER", "COMBINED_IMAGE_SAMPLER", "SAMPLED_IMAGE", "STORAGE_IMAGE",
     "UNIFORM_TEXEL_BUFFER", "STORAGE_TEXEL_BUFFER", "UNIFORM_BUFFER",
     "STORAGE_BUFFER", "UNIFORM_BUFFER_DYNAMIC", "STORAGE_BUFFER_DYNAMIC",
     "INPUT_ATTACHMENT"}

\* AddBindingsForStage: _layoutTypes[binding.descriptorType]++ for each
\* binding; `types` is the sequence of the descriptor types of the bindings.
LayoutTypesOf(types) ==
    [ty \in VkTypes |-> Cardinality({i \in 1..Len(types) : types[i] = ty})]

\* The values of _layoutTypes of a layout with up to MaxDescriptors bindings.
VkHistograms == {LayoutTypesOf(types) : types \in SeqsUpTo(VkTypes, MaxDescriptors)}

\* The sums Compile compares with the limits (lines 93-99), by limit.
CategorySums(h) ==
    [maxDescriptorSetSamplers |-> h["SAMPLER"] + h["COMBINED_IMAGE_SAMPLER"],
     maxDescriptorSetUniformBuffers |->
         h["UNIFORM_BUFFER"] + h["UNIFORM_BUFFER_DYNAMIC"],
     maxDescriptorSetUniformBuffersDynamic |-> h["UNIFORM_BUFFER_DYNAMIC"],
     maxDescriptorSetStorageBuffers |->
         h["STORAGE_BUFFER"] + h["STORAGE_BUFFER_DYNAMIC"],
     maxDescriptorSetStorageBuffersDynamic |-> h["STORAGE_BUFFER_DYNAMIC"],
     maxDescriptorSetSampledImages |->
         h["COMBINED_IMAGE_SAMPLER"] + h["SAMPLED_IMAGE"] + h["UNIFORM_TEXEL_BUFFER"],
     maxDescriptorSetStorageImages |-> h["STORAGE_IMAGE"] + h["STORAGE_TEXEL_BUFFER"]]

Categories == DOMAIN CategorySums([ty \in VkTypes |-> 0])

\* Mutant of the validation: nothing is compared.
LimitsIgnored(h, lim) == TRUE

\* The seven ASSERTs of lines 93-99 all pass.
LimitsOk(h, lim) == \A c \in Categories : CategorySums(h)[c] < lim[c]

\* ASSERT(_handles.IsEmpty()) passes.
EntryOk(n) == n = 0

\* The instance before Compile: a constructed DescriptorSetLayoutVulkan that
\* a layout was copied into, on a device whose limits have one value.
InitCompile ==
    /\ cSetLayouts \in 0..MaxGroups
    /\ cLayoutTypes \in VkHistograms
    /\ cSetLayouts = 0 => cLayoutTypes = LayoutTypesOf(<<>>)
    /\ \E v \in 1..MaxLimit : limits = [c \in Categories |-> v]
    /\ handles = 0
    /\ cTypesUsageID = NoUsageID
    /\ descriptorSetCount = 0
    /\ created = 0
    /\ cPc = "ready"
    /\ cCalls = 0

\* Compile is called. The usage ID CacheTypesUsageID stores is the one of
\* the first layout of the process.
Compile ==
    /\ cPc = "ready"
    /\ cCalls < MaxCompiles
    /\ cCalls' = cCalls + 1
    /\ IF EntryOk(handles) /\ LimitsOk(cLayoutTypes, limits)
       THEN /\ handles' = cSetLayouts
            /\ created' = created + cSetLayouts
            /\ cTypesUsageID' = IF cTypesUsageID = NoUsageID THEN 1 ELSE cTypesUsageID
            /\ descriptorSetCount' = cSetLayouts
            /\ UNCHANGED cPc
       ELSE /\ cPc' = "halted"
            /\ UNCHANGED <<handles, created, cTypesUsageID, descriptorSetCount>>
    /\ UNCHANGED <<cLayoutTypes, cSetLayouts, limits>>

NextCompileOps == Compile

\* The Compile variables while another part of the file is explored.
CompileIdle ==
    /\ cSetLayouts = 0
    /\ cLayoutTypes = LayoutTypesOf(<<>>)
    /\ limits = [c \in Categories |-> 1]
    /\ handles = 0
    /\ cTypesUsageID = NoUsageID
    /\ descriptorSetCount = 0
    /\ created = 0
    /\ cPc = "ready"
    /\ cCalls = 0


(***************************************************************************)
(* DescriptorSetWriterVulkan::SetupDescriptorWrites                        *)
(***************************************************************************)

\* descriptor.Count: a single descriptor or an array.
ElementCounts == {1, 2}

\* The entries of info.DescriptorTypes.
Descriptors == [DescriptorType : VkTypes, Count : ElementCounts]

\* An entry of BindingToDynamicOffset the call has not written.
NoSlot == -1

NoPointer == [array |-> "none", offset |-> 0]

\* The switch on writeDescriptors->descriptorType (lines 396-423): the case
\* a descriptor type falls into.
WriteCase(ty) ==
    CASE ty = "UNIFORM_BUFFER_DYNAMIC" -> "dynamic"
      [] ty \in {"UNIFORM_BUFFER", "STORAGE_BUFFER"} -> "buffer"
      [] ty \in {"SAMPLER", "COMBINED_IMAGE_SAMPLER", "SAMPLED_IMAGE",
                 "STORAGE_IMAGE"} -> "image"
      [] ty \in {"STORAGE_TEXEL_BUFFER", "UNIFORM_TEXEL_BUFFER"} -> "texel"
      [] OTHER -> "default"

\* Mutant of the dynamic case: the slot is the binding index.
SlotIsBinding(i, dynIndex) == i % 256

\* BindingToDynamicOffset[i] = dynamicOffsetIndex: a uint32 stored in a uint8.
SlotOf(i, dynIndex) == dynIndex % 256

\* The array a case takes its info pointer from.
InfoArray(case) ==
    CASE case \in {"dynamic", "buffer"} -> "bufferInfo"
      [] case = "image" -> "imageInfo"
      [] case = "texel" -> "texelBufferView"
      [] OTHER -> "none"

\* How far a case moves its pointer: bufferInfo++ in the dynamic case,
\* += descriptor.Count in the others.
Advance(case, count) == IF case = "dynamic" THEN 1 ELSE count

\* The call is entered with a descriptor list of any length up to
\* SpirvShaderDescriptorInfo::MaxDescriptors (the ASSERT of line 383).
InitWriter ==
    /\ wCount \in 0..MaxDescriptors
    /\ wInfo = <<>>
    /\ writeDescriptors = <<>>
    /\ bindingToDynamicOffset = [i \in 0..(MaxDescriptors - 1) |-> NoSlot]
    /\ dynamicOffsetIndex = 0
    /\ bufferInfo = 0
    /\ imageInfo = 0
    /\ texelBufferView = 0
    /\ wPc = "loop"
    /\ wResult = 0

\* One iteration of the loop, on binding i = the number of entries written.
WriterStep ==
    /\ wPc = "loop"
    /\ Len(wInfo) < wCount
    /\ \E descriptor \in Descriptors :
         LET i == Len(wInfo)
             case == WriteCase(descriptor.DescriptorType)
             offset == CASE InfoArray(case) = "bufferInfo" -> bufferInfo
                         [] InfoArray(case) = "imageInfo" -> imageInfo
                         [] InfoArray(case) = "texelBufferView" -> texelBufferView
                         [] OTHER -> 0
             step == Advance(case, descriptor.Count)
         IN  /\ wInfo' = Append(wInfo, descriptor)
             /\ writeDescriptors' = Append(writeDescriptors,
                    [dstBinding |-> i,
                     descriptorCount |-> descriptor.Count,
                     descriptorType |-> descriptor.DescriptorType,
                     pInfo |-> IF case = "default" THEN NoPointer
                               ELSE [array |-> InfoArray(case), offset |-> offset]])
             /\ IF case = "dynamic"
                THEN /\ bindingToDynamicOffset' =
                          [bindingToDynamicOffset EXCEPT ![i] = SlotOf(i, dynamicOffsetIndex)]
                     /\ dynamicOffsetIndex' = dynamicOffsetIndex + 1
                ELSE UNCHANGED <<bindingToDynamicOffset, dynamicOffsetIndex>>
             /\ bufferInfo' = IF InfoArray(case) = "bufferInfo"
                              THEN bufferInfo + step ELSE bufferInfo
             /\ imageInfo' = IF InfoArray(case) = "imageInfo"
                             THEN imageInfo + step ELSE imageInfo
             /\ texelBufferView' = IF InfoArray(case) = "texelBufferView"
                                   THEN texelBufferView + step ELSE texelBufferView
             /\ wPc' = IF case = "default" THEN "crashed" ELSE "loop"
    /\ UNCHANGED <<wCount, wResult>>

\* The loop is over: return dynamicOffsetIndex.
WriterReturn ==
    /\ wPc = "loop"
    /\ Len(wInfo) = wCount
    /\ wPc' = "returned"
    /\ wResult' = dynamicOffsetIndex
    /\ UNCHANGED <<wCount, wInfo, writeDescriptors, bindingToDynamicOffset,
                   dynamicOffsetIndex, bufferInfo, imageInfo, texelBufferView>>

NextWriterOps ==
    \/ WriterStep
    \/ WriterReturn

\* The writer variables while another part of the file is explored.
WriterIdle ==
    /\ wCount = 0
    /\ wInfo = <<>>
    /\ writeDescriptors = <<>>
    /\ bindingToDynamicOffset = [i \in 0..(MaxDescriptors - 1) |-> NoSlot]
    /\ dynamicOffsetIndex = 0
    /\ bufferInfo = 0
    /\ imageInfo = 0
    /\ texelBufferView = 0
    /\ wPc = "loop"
    /\ wResult = 0


(***************************************************************************)
(* DescriptorPoolSetContainerVulkan::AcquireTypedPoolSet and Reset, on one *)
(* registry                                                                *)
(***************************************************************************)

\* layout.GetTypesUsageID() of a compiled layout with histogram h: an ID
\* that CacheTypesUsageID gives to the hash of h and to no other hash.
GetTypesUsageID(h) == MemCrc32(h) + 1

UsageIDs == {GetTypesUsageID(h) : h \in Histograms}

\* Dictionary: no chain for the key.
NoChain == [id |-> 0]

\* Mutant of the lookup: TryGet never finds the key.
TypedTryGetMisses(map, key) == NoChain

\* _typedDescriptorPools.TryGet(hash, typedPool).
TypedTryGet(map, key) == map[key]

\* New<TypedDescriptorPoolSetVulkan>(_device, this, layout): the chain is
\* bound to the layout of this call and holds no allocation.
NewTypedPool(n, h) == [id |-> n, layout |-> h, sets |-> 0]

\* DescriptorPoolSetContainerVulkan::Reset: Reset of every chain in the map.
ContainerResetChains(map) ==
    [k \in DOMAIN map |->
        IF map[k] = NoChain THEN NoChain ELSE [map[k] EXCEPT !.sets = 0]]

\* The registry as its constructor leaves it.
InitReg ==
    /\ typedDescriptorPools = [k \in UsageIDs |-> NoChain]
    /\ chainsCreated = 0
    /\ requested = {}
    /\ lastTyped = [op |-> "none"]

\* AcquireTypedPoolSet(layout), for a layout with any histogram.
AcquireTypedPoolSet ==
    \E h \in Histograms :
        LET hash == GetTypesUsageID(h)
            found == TypedTryGet(typedDescriptorPools, hash)
        IN  /\ IF found = NoChain
               THEN /\ typedDescriptorPools' =
                          [typedDescriptorPools EXCEPT
                              ![hash] = NewTypedPool(chainsCreated + 1, h)]
                    /\ chainsCreated' = chainsCreated + 1
                    /\ lastTyped' = [op |-> "acquire", key |-> hash, created |-> TRUE,
                                      sameLayout |-> TRUE, chain |-> chainsCreated + 1]
               ELSE /\ lastTyped' = [op |-> "acquire", key |-> hash, created |-> FALSE,
                                      sameLayout |-> (found.layout = h),
                                      chain |-> found.id]
                    /\ UNCHANGED <<typedDescriptorPools, chainsCreated>>
            /\ requested' = requested \cup {hash}

\* The holder allocates descriptor sets from a chain AcquireTypedPoolSet
\* returned.
TypedAllocate ==
    /\ \E k \in UsageIDs :
         /\ typedDescriptorPools[k] # NoChain
         /\ typedDescriptorPools[k].sets < MaxWork
         /\ typedDescriptorPools' =
                [typedDescriptorPools EXCEPT ![k].sets = @ + 1]
         /\ lastTyped' = [op |-> "allocate", key |-> k]
    /\ UNCHANGED <<chainsCreated, requested>>

\* DescriptorPoolSetContainerVulkan::Reset.
RegReset ==
    /\ typedDescriptorPools' = ContainerResetChains(typedDescriptorPools)
    /\ lastTyped' = [op |-> "reset",
                      cleared |-> Cardinality({k \in UsageIDs :
                                      /\ typedDescriptorPools[k] # NoChain
                                      /\ typedDescriptorPools[k].sets > 0})]
    /\ UNCHANGED <<chainsCreated, requested>>

NextRegOps ==
    \/ AcquireTypedPoolSet
    \/ TypedAllocate
    \/ RegReset

\* The registry variables while another part of the file is explored.
RegIdle == InitReg


(***************************************************************************)
(* Claims about DescriptorPoolsManagerVulkan (checked under Spec, and       *)
(* under SpecFrames and SpecWork where an observer is read).                *)
(***************************************************************************)

MaxOf(S) == CHOOSE x \in S : \A y \in S : y <= x

MinOf(S) == CHOOSE x \in S : \A y \in S : x <= y

\* C1: AcquirePoolSetContainer never returns a registry that another caller
\* has acquired and not yet passed to ReleasePoolSet: a registry that
\* becomes a thread's lease is nobody's lease before, and no two threads
\* hold the same registry.
C1_MutualExclusion ==
    [][\A t \in Threads :
          /\ (held'[t] # NoReg /\ held'[t] # held[t]) => held'[t] \notin Leases
          /\ \A u \in Threads \ {t} : held'[t] # NoReg => held'[t] # held'[u]]_vars

\* C1 witness: a registry is leased to one thread while the ReleasePoolSet
\* call of its previous holder is still running.
C1_Witness ==
    \E t1 \in Threads : \E t2 \in Threads \ {t1} :
        cur[t1] # NoReg /\ cur[t1] = held[t2]

\* C2: GC never destroys a registry whose release frame (the frame at which
\* it became free) is within VULKAN_RESOURCE_DELETE_SAFE_FRAMES_COUNT frames
\* of the current frame counter.
C2_GCSafetyMargin ==
    [][\A a \in Addr :
          (a \in Range(poolSets) /\ a \notin Range(poolSets'))
              => FrameCount - relFrame[a] > VULKAN_RESOURCE_DELETE_SAFE_FRAMES_COUNT]_vars

\* C3: a registry returned by AcquirePoolSetContainer and not yet passed to
\* ReleasePoolSet is still owned by the manager and still marked used,
\* whatever the frame counter.
C3_LeasedNotDestroyed ==
    \A a \in Leases : a \in Range(poolSets) /\ heap[a].used

\* C3 witness: a running GC has passed over a leased registry whose last
\* used frame is older than the safety margin.
C3_Witness ==
    \E t \in Threads :
        /\ pc[t] = "gc" /\ gcQuiet /\ gcRemoved = 0
        /\ \E j \in (idx[t] + 1)..Len(poolSets) :
              /\ poolSets[j] \in Leases
              /\ FrameCount - heap[poolSets[j]].lastFrameUsed
                    > VULKAN_RESOURCE_DELETE_SAFE_FRAMES_COUNT

\* C4: a GC call that runs without interference removes exactly one
\* registry when some owned registry is free and past the safety margin,
\* the one with the highest index among them, and leaves every other
\* registry owned and unchanged; when none is eligible it changes nothing.
C4_GCRemovesOne ==
    [][gcQuiet' =>
          /\ poolSets' # poolSets =>
                /\ gcRemoved' = 1
                /\ EligibleIdx # {}
                /\ poolSets' = RemoveAt(poolSets, MaxOf(EligibleIdx))
                /\ \A a \in Range(poolSets') : heap'[a] = heap[a]
          /\ (locker' = NoThread /\ gcRemoved' = 0) =>
                /\ EligibleIdx = {}
                /\ poolSets' = poolSets /\ heap' = heap]_vars

\* C4 witness: a GC that ran without interference has removed one registry
\* and left another eligible registry in place.
C4_Witness ==
    locker = NoThread /\ gcQuiet /\ gcRemoved = 1 /\ EligibleIdx # {}

\* C9: ReleasePoolSet is atomic with respect to GC: GC never deletes a
\* registry while a ReleasePoolSet call on it is still executing.
C9_ReleaseAtomic ==
    \A t \in Threads : cur[t] # NoReg => ~dangling[t]

\* C11: the steps of ReleasePoolSet leave the allocations of every registry
\* as they are; the chains of an owned registry are reset only by the step
\* of AcquirePoolSetContainer that hands the registry, until then nobody's
\* lease, to its new holder; no step of GC and no step of another caller
\* takes allocations from a registry that stays owned or leased.
C11_ResetOnlyOnAcquire ==
    [][/\ (\/ \E a \in Addr : ReleasedNow(a)
           \/ \E t \in Threads : cur[t] # NoReg /\ pc'[t] # pc[t])
            => allocated' = allocated
       /\ \A a \in Range(poolSets') :
             allocated'[a] < allocated[a]
                => /\ a \notin Leases
                   /\ \E t \in Threads :
                         pc[t] \in {"idle", "acq"} /\ held[t] = NoReg /\ held'[t] = a
       /\ \A a \in Leases \cap {held'[t] : t \in Threads} :
             allocated'[a] >= allocated[a]]_vars

\* C11 witness: a registry that held allocations was reset and handed to a
\* new holder while the ReleasePoolSet call of its previous holder is still
\* running.
C11_Witness ==
    /\ lastReset # NoReg
    /\ \E t \in Threads : held[t] = lastReset
    /\ \E u \in Threads : cur[u] = lastReset

\* C14: SetUsed(false) marks the registry free and stamps it: once
\* ReleasePoolSet has returned, GetLastFrameUsed of a free registry is the
\* frame at which it became free.
C14_ReleaseTimestamps ==
    \A a \in Range(poolSets) :
        (IsUnused(heap[a]) /\ \A t \in Threads : cur[t] # a)
            => GetLastFrameUsed(heap[a]) = relFrame[a]

\* C20: registries are created only on demand: the number of registries
\* the manager owns never exceeds the largest number of leases that were
\* held at one time.
C20_CreatedOnDemand == Len(poolSets) <= maxLeases

(***************************************************************************)
(* Claims about TypedDescriptorPoolSetVulkan (checked under SpecChain).     *)
(***************************************************************************)

\* The number C of allocations of layout L a newly created native pool
\* accepts before vkAllocateDescriptorSets reports exhaustion.
Capacity(L) ==
    LET p == NewPool(L)
        bySets == IF HandlesCount(L) = 0 THEN {}
                  ELSE {p.maxSets \div HandlesCount(L)}
        byType == {p.sizes[ty] \div DescriptorsNeeded(L, ty) :
                     ty \in {u \in DescTypes : DescriptorsNeeded(L, u) > 0}}
    IN  MinOf(bySets \cup byType \cup {MaxSetsAllocations})

CeilDiv(n, c) == (n + c - 1) \div c

\* C5: on a chain that was never reset and saw no native failure but pool
\* exhaustion, after N > C calls of AllocateDescriptorSets have returned
\* true the chain has exactly ceil(N/C) pools, the cursor is on the last
\* one, and the pools hold the sets of all N calls.
C5_ChainGrowthExact ==
    (/\ phase = "fresh" /\ chainPc = "idle"
     /\ HandlesCount(layout) > 0 /\ Capacity(layout) >= 1
     /\ nAllocs > Capacity(layout))
    => /\ Len(pools) = CeilDiv(nAllocs, Capacity(layout))
       /\ cursor = Len(pools)
       /\ SumSeq([i \in 1..Len(pools) |-> pools[i].sets]) = nAllocs * HandlesCount(layout)

\* C5 witness: with C > 1, more than 2C allocations were made and the chain
\* has three pools.
C5_Witness ==
    /\ phase = "fresh" /\ chainPc = "idle"
    /\ HandlesCount(layout) > 0 /\ Capacity(layout) > 1
    /\ nAllocs > 2 * Capacity(layout)
    /\ Len(pools) = 3

\* C6: Reset leaves every pool of the chain empty, the cursor on the first
\* pool and the number of pools as it was; each of the next N <= C
\* allocations is served by the first pool and the number of pools stays
\* the same.
C6_ReuseAfterReset ==
    [][phase' = "reset" =>
          /\ (chainPc = "idle" /\ chainPc' = "idle" /\ nAllocs' = 0) =>
                /\ cursor' = 1
                /\ Len(pools') = Len(pools)
                /\ \A i \in 1..Len(pools') : pools'[i] = PoolReset(pools[i])
                /\ \A i \in 1..Len(pools') : pools'[i].sets = 0
          /\ (phase = "reset" /\ nAllocs < Capacity(layout)) =>
                /\ cursor' = 1
                /\ Len(pools') = Len(pools)
                /\ nAllocs' = nAllocs + 1 =>
                      /\ pools'[1].sets = pools[1].sets + HandlesCount(layout)
                      /\ \A i \in 2..Len(pools) : pools'[i] = pools[i]]_vars

\* C6 witness: a chain of more than one pool was reset and has served
\* allocations from its first pool since.
C6_Witness ==
    /\ phase = "reset" /\ chainPc = "idle"
    /\ Len(pools) >= 2
    /\ nAllocs >= 2 /\ nAllocs <= Capacity(layout)
    /\ cursor = 1

\* C7: every call of AllocateDescriptorSets returns true after creating
\* finitely many pools, whatever the layout. Every pool the chain creates
\* is built alike, so this is: an attempt on an empty pool that the native
\* layer does not fail for another reason than exhaustion returns true.
C7_AllocTerminates ==
    [][(/\ chainPc = "try"
        /\ pools[cursor] = NewPool(layout)
        /\ phase' = phase) => chainPc' = "idle"]_vars

\* C8: a native failure other than pool exhaustion ends the allocation: the
\* cursor is not advanced, no pool is created and the loop is left.
C8_HardFailureFatal ==
    [][(phase' = "lost" /\ phase # "lost") =>
          /\ cursor' = cursor
          /\ Len(pools') = Len(pools)
          /\ chainPc' # "try"]_vars

\* C18: the cursor always points at a pool of the chain; the chain never
\* loses a pool; it grows only by one pool at the tail, in a step in which
\* the allocation attempt on the current pool failed while the cursor was
\* on the last pool, and the cursor then is on the new pool; the cursor
\* otherwise stays, moves to the next pool, or is rewound by Reset.
C18_ChainShape ==
    [][/\ cursor' \in 1..Len(pools')
       /\ Len(pools') >= Len(pools)
       /\ Len(pools') > Len(pools) =>
             /\ chainPc = "try" /\ chainPc' = "try" /\ nAllocs' = nAllocs
             /\ cursor = Len(pools)
             /\ pools' = Append(pools, NewPool(layout))
             /\ cursor' = Len(pools')
       /\ cursor' # cursor =>
             \/ cursor' = cursor + 1 /\ chainPc = "try"
             \/ cursor' = 1 /\ chainPc = "idle" /\ nAllocs' = 0]_vars

\* C18 witness: after a Reset of a chain of three pools the first pool has
\* filled up and the cursor has moved to the second, existing pool.
C18_Witness ==
    /\ phase = "reset" /\ Len(pools) = 3 /\ cursor = 2
    /\ pools[2].sets > 0
    /\ ~PoolHasRoom(pools[1], layout)

(***************************************************************************)
(* Claims about CacheTypesUsageID (checked under SpecUsage).                *)
(***************************************************************************)

\* C10: two layouts with equal histograms that have a usage ID have the
\* same one, in any order and interleaving of the calls, and every call
\* stores the ID entered for the hash of its layout; an ID entered for a
\* hash is never changed, no two hashes share an ID, and the usage ID a
\* layout has is never replaced by another.
C10_UsageIDDeterministic ==
    [][/\ \A o1 \in LayoutObjs : \A o2 \in LayoutObjs :
             (typesUsageID'[o1] # NoUsageID /\ typesUsageID'[o2] # NoUsageID)
                => typesUsageID'[o1] = typesUsageID'[o2]
       /\ \A t \in Threads :
             (uPc[t] = "store" /\ uPc'[t] = "idle")
                => uId[t] = typesUsageHashMap[uHash[t]]
       /\ \A h \in Hashes :
             typesUsageHashMap[h] # NoEntry
                => typesUsageHashMap'[h] = typesUsageHashMap[h]
       /\ \A h1 \in Hashes : \A h2 \in Hashes \ {h1} :
             typesUsageHashMap'[h1] # NoEntry
                => typesUsageHashMap'[h1] # typesUsageHashMap'[h2]
       /\ \A o \in LayoutObjs :
             typesUsageID[o] # NoUsageID => typesUsageID'[o] = typesUsageID[o]]_vars

\* C10 witness: the two layouts with equal histograms carry the same usage
\* ID, another hash has another ID, and a call is running.
C10_Witness ==
    /\ typesUsageID[1] # NoUsageID
    /\ typesUsageID[1] = typesUsageID[2]
    /\ \E h \in Hashes \ {MemCrc32(layoutTypes)} :
          /\ typesUsageHashMap[h] # NoEntry
          /\ typesUsageHashMap[h] # typesUsageID[1]
    /\ \E t \in Threads : uPc[t] # "idle"

(***************************************************************************)
(* Claims about DescriptorSetLayoutVulkan::Compile (checked under           *)
(* SpecCompile).                                                           *)
(***************************************************************************)

\* The histogram is above the device limit of some category.
ExceedsLimit(h, lim) == \E c \in Categories : CategorySums(h)[c] > lim[c]

\* C12: the first Compile of a layout whose histogram exceeds the device
\* limit of a category halts, with no native layout object created and no
\* handle stored.
C12_ValidateBeforeCreate ==
    [][(cCalls = 0 /\ cCalls' = 1 /\ ExceedsLimit(cLayoutTypes, limits))
          => cPc' = "halted" /\ created' = 0 /\ handles' = 0]_vars

\* C12 witness: Compile has halted on a layout with binding groups whose
\* histogram exceeds the limit of exactly one category.
C12_Witness ==
    /\ cPc = "halted" /\ cCalls = 1 /\ cSetLayouts > 0
    /\ Cardinality({c \in Categories : CategorySums(cLayoutTypes)[c] > limits[c]}) = 1
    /\ created = 0 /\ handles = 0

\* C15: a call of Compile on an instance Compile has run on before halts
\* on the entry assertion and creates no further native layout object,
\* whatever the layout, one without binding groups included.
C15_CompileOnce ==
    [][(cCalls >= 1 /\ cCalls' = cCalls + 1)
          => cPc' = "halted" /\ created' = created]_vars

(***************************************************************************)
(* Claims about DescriptorSetWriterVulkan::SetupDescriptorWrites (checked   *)
(* under SpecWriter).                                                      *)
(***************************************************************************)

\* The descriptor types that carry a dynamic offset.
DynamicOffsetTypes == {"UNIFORM_BUFFER_DYNAMIC", "STORAGE_BUFFER_DYNAMIC"}

\* The bindings (0-based) the loop has gone through without halting.
Passed ==
    {i \in 0..(Len(wInfo) - 1) : ~(wPc = "crashed" /\ i = Len(wInfo) - 1)}

\* The dynamic-offset bindings among the first n of the list.
DynamicBefore(n) ==
    {j \in 0..(n - 1) : wInfo[j + 1].DescriptorType \in DynamicOffsetTypes}

CompileRecognised ==
    {ty \in VkTypes : \E c \in Categories : CategorySums(LayoutTypesOf(<<ty>>))[c] > 0}

\* C16: every binding of a type that carries a dynamic offset gets its
\* write and its slot and the loop goes on; the call halts only on a
\* descriptor type the validation in Compile does not recognise either.
C16_DynamicTypesHandled ==
    /\ wPc = "crashed" => wInfo[Len(wInfo)].DescriptorType \notin CompileRecognised
    /\ \A i \in 0..(Len(wInfo) - 1) :
          wInfo[i + 1].DescriptorType \in DynamicOffsetTypes
             => /\ bindingToDynamicOffset[i] # NoSlot
                /\ writeDescriptors[i + 1].pInfo # NoPointer

\* The info range of the write of binding i (0-based): descriptor.Count
\* elements from its pointer.
InfoRange(i) ==
    LET w == writeDescriptors[i + 1]
    IN  w.pInfo.offset..(w.pInfo.offset + w.descriptorCount - 1)

\* C17: every binding the loop has gone through points at the position its
\* category's cursor had, and the cursor has moved on by the binding's
\* element count: the info ranges of two bindings of one category do not
\* overlap.
C17_CursorsAdvanceByCount ==
    \A i \in Passed : \A j \in Passed :
        (i < j /\ writeDescriptors[i + 1].pInfo.array = writeDescriptors[j + 1].pInfo.array)
            => InfoRange(i) \cap InfoRange(j) = {}

(***************************************************************************)
(* Claims about AcquireTypedPoolSet and Reset of a registry (checked under  *)
(* SpecReg).                                                               *)
(***************************************************************************)

\* The keys the registry holds a chain for.
TypedKeys == {k \in UsageIDs : typedDescriptorPools[k] # NoChain}

\* C19: the registry holds a chain for exactly the keys requested so far
\* and has constructed one chain for each; no step replaces the chain of a
\* key; AcquireTypedPoolSet returns the chain of the key of its layout, and
\* for a key seen before leaves the map as it is; Reset of the registry
\* leaves every chain without allocations and keeps the keys and the chains.
C19_OneChainPerKey ==
    [][/\ TypedKeys' = requested'
       /\ chainsCreated' = Cardinality(requested')
       /\ \A k \in TypedKeys : typedDescriptorPools'[k].id = typedDescriptorPools[k].id
       /\ lastTyped'.op = "acquire"
             => /\ typedDescriptorPools'[lastTyped'.key].id = lastTyped'.chain
                /\ lastTyped'.created <=> lastTyped'.key \notin requested
                /\ ~lastTyped'.created => typedDescriptorPools' = typedDescriptorPools
       /\ lastTyped'.op = "reset"
             => \A k \in TypedKeys' : typedDescriptorPools'[k].sets = 0]_vars

\* C19 witness: two chains exist and hold allocations, and the first was
\* returned again, for a layout other than the one it was created for.
C19_Witness ==
    /\ Cardinality(TypedKeys) = 2
    /\ chainsCreated = 2
    /\ lastTyped.op = "acquire"
    /\ lastTyped.chain = 1
    /\ ~lastTyped.created
    /\ ~lastTyped.sameLayout
    /\ \A k \in TypedKeys : typedDescriptorPools[k].sets > 0

\* The parts of the file a specification does not explore.
restVars == <<chainVars, usageVars, compileVars, writerVars, regVars>>

Init ==
    InitMgr /\ ObsIdle /\ ChainIdle /\ UsageIdle /\ CompileIdle /\ WriterIdle /\ RegIdle

Next == NextMgr /\ UNCHANGED <<obsVars, restVars>>

Spec == Init /\ [][Next]_vars

InitChainSpec ==
    InitChain /\ MgrIdle /\ UsageIdle /\ CompileIdle /\ WriterIdle /\ RegIdle

NextChain ==
    /\ NextChainOps
    /\ UNCHANGED <<mgrVars, obsVars, usageVars, compileVars, writerVars, regVars>>

SpecChain == InitChainSpec /\ [][NextChain]_vars

InitUsageSpec ==
    InitUsage /\ MgrIdle /\ ChainIdle /\ CompileIdle /\ WriterIdle /\ RegIdle

NextUsage ==
    /\ NextUsageOps
    /\ UNCHANGED <<mgrVars, obsVars, chainVars, compileVars, writerVars, regVars>>

SpecUsage == InitUsageSpec /\ [][NextUsage]_vars

\* The manager with the release frames observed.
NextFrames ==
    /\ NextMgr
    /\ relFrame' = RelFrameNext
    /\ UNCHANGED <<lastReset, maxLeases, restVars>>

SpecFrames == Init /\ [][NextFrames]_vars

\* The manager with holders that allocate from their registries, and the
\* resets observed.
NextWork ==
    /\ NextMgr \/ \E t \in Threads : UseRegistry(t)
    /\ lastReset' = LastResetNext
    /\ UNCHANGED <<relFrame, maxLeases, restVars>>

SpecWork == Init /\ [][NextWork]_vars

\* The manager, and the leases counted.
NextDemand ==
    /\ NextMgr
    /\ maxLeases' = MaxLeasesNext
    /\ UNCHANGED <<relFrame, lastReset, restVars>>

SpecDemand == Init /\ [][NextDemand]_vars

InitCompileSpec ==
    InitCompile /\ MgrIdle /\ ChainIdle /\ UsageIdle /\ WriterIdle /\ RegIdle

NextCompile ==
    /\ NextCompileOps
    /\ UNCHANGED <<mgrVars, obsVars, chainVars, usageVars, writerVars, regVars>>

SpecCompile == InitCompileSpec /\ [][NextCompile]_vars

InitWriterSpec ==
    InitWriter /\ MgrIdle /\ ChainIdle /\ UsageIdle /\ CompileIdle /\ RegIdle

NextWriter ==
    /\ NextWriterOps
    /\ UNCHANGED <<mgrVars, obsVars, chainVars, usageVars, compileVars, regVars>>

SpecWriter == InitWriterSpec /\ [][NextWriter]_vars

InitRegSpec ==
    InitReg /\ MgrIdle /\ ChainIdle /\ UsageIdle /\ CompileIdle /\ WriterIdle

NextReg ==
    /\ NextRegOps
    /\ UNCHANGED <<mgrVars, obsVars, chainVars, usageVars, compileVars, writerVars>>

SpecReg == InitRegSpec /\ [][NextReg]_vars

=============================================================================
